---- MODULE Spec2Model ----
(***************************************************************************)
(* Model of convert_hex_to_UTF8.py: the $HEX[...] decoder with its UTF-8 / *)
(* Latin-1 fallback, applied line by line to a file (process_file) or once *)
(* to a literal string (process_hex_string), dispatched by main.           *)
(*                                                                         *)
(* Text is a sequence of code points and a byte string a sequence of       *)
(* numbers 0..255, so that lines, decoded text and file contents can be    *)
(* compared with one another.                                              *)
(***************************************************************************)
EXTENDS Integers, Sequences, FiniteSets, TLC

VARIABLES
    pc,             \* "main", "reading" (inside the for loop of process_file), "done"
    inputIsFile,    \* os.path.isfile(args.input)
    outputGiven,    \* args.output is set
    fileLines,      \* the lines iterating the input file yields, terminators included
    hexInput,       \* args.input when it is no file
    line_num,       \* number of lines the loop has consumed (enumerate's counter)
    decoded_lines,  \* process_file's decoded_lines
    warnings,       \* process_file's warnings
    result,         \* what the latest call of convert_hex_to_utf8 returned
    outFile,        \* content of the output file
    outWrites,      \* number of times the output file was opened for writing
    stdout,
    stderr,
    exitCode        \* -1 while running

vars == <<pc, inputIsFile, outputGiven, fileLines, hexInput, line_num,
          decoded_lines, warnings, result, outFile, outWrites, stdout,
          stderr, exitCode>>

----------------------------------------------------------------------------
(* Bounds of the model *)

\* longest payload (in characters) of an enumerated token
MaxPayloadLen == 4
\* most lines of an input file built from the sample lines
MaxLines == 3

----------------------------------------------------------------------------
(* Characters *)

Ord == ("$" :> 36) @@ ("H" :> 72) @@ ("E" :> 69) @@ ("X" :> 88) @@
       ("[" :> 91) @@ ("]" :> 93) @@ ("0" :> 48) @@ ("a" :> 97) @@
       ("C" :> 67) @@ ("z" :> 122) @@ (" " :> 32) @@ ("p" :> 112) @@
       ("x" :> 120) @@ ("\n" :> 10) @@ ("\r" :> 13) @@ ("h" :> 104) @@
       ("e" :> 101)

\* the text of a literal, given as a tuple of one-character strings
Str(lit) == [i \in 1..Len(lit) |-> Ord[lit[i]]]

\* all sequences over S of length at most n
RECURSIVE SeqsUpTo(_, _)
SeqsUpTo(S, n) ==
    IF n = 0 THEN {<<>>}
    ELSE LET shorter == SeqsUpTo(S, n - 1)
         IN  shorter \cup {Append(s, c) : s \in {t \in shorter : Len(t) = n - 1}, c \in S}

----------------------------------------------------------------------------
(* re: the character classes and the marker pattern *)

\* . in the place of the class
AnyCharClass(c) == TRUE

\* [0-9A-Fa-f]
IsHexClass(c) == (c >= 48 /\ c <= 57) \/ (c >= 65 /\ c <= 70) \/ (c >= 97 /\ c <= 102)

\* \s on str, for the code points below 256
IsSpace(c) == c \in {9, 10, 11, 12, 13, 28, 29, 30, 31, 32, 133, 160}

MarkerPrefix == Str(<<"$", "H", "E", "X", "[">>)

NoMatch == [matched |-> FALSE, group |-> <<>>]

\* the part of s the pattern must cover: $ also matches just before a final newline
DollarAnchored(s) ==
    IF Len(s) > 0 /\ s[Len(s)] = 10 THEN SubSeq(s, 1, Len(s) - 1) ELSE s

\* re.match(r'^\$HEX\[([0-9A-Fa-f]+)\]$', s): whether it matches, and group(1)
RegexMatchUnanchored(s) ==
    IF /\ Len(s) >= Len(MarkerPrefix) + 2
       /\ SubSeq(s, 1, Len(MarkerPrefix)) = MarkerPrefix
       /\ IsHexClass(s[Len(MarkerPrefix) + 1])
    THEN LET first == Len(MarkerPrefix) + 1
             stop  == CHOOSE k \in first..Len(s) + 1 :
                        /\ \A j \in first..k - 1 : IsHexClass(s[j])
                        /\ (k = Len(s) + 1 \/ ~IsHexClass(s[k]))
         IN  IF stop <= Len(s) /\ s[stop] = 93
             THEN [matched |-> TRUE, group |-> SubSeq(s, first, stop - 1)]
             ELSE NoMatch
    ELSE NoMatch

RegexMatchGreedyGroup(s) ==
    LET t == DollarAnchored(s)
    IN  IF /\ Len(t) >= Len(MarkerPrefix) + 2
           /\ SubSeq(t, 1, Len(MarkerPrefix)) = MarkerPrefix
           /\ t[Len(t)] = 93
           /\ \A j \in Len(MarkerPrefix) + 1..Len(t) - 1 : IsHexClass(t[j])
        THEN [matched |-> TRUE, group |-> SubSeq(t, Len(MarkerPrefix) + 1, Len(t))]
        ELSE NoMatch

RegexMatch(s) ==
    LET t == DollarAnchored(s)
    IN  IF /\ Len(t) >= Len(MarkerPrefix) + 2
           /\ SubSeq(t, 1, Len(MarkerPrefix)) = MarkerPrefix
           /\ t[Len(t)] = 93
           /\ \A j \in Len(MarkerPrefix) + 1..Len(t) - 1 : IsHexClass(t[j])
        THEN [matched |-> TRUE, group |-> SubSeq(t, Len(MarkerPrefix) + 1, Len(t) - 1)]
        ELSE NoMatch

\* line.rstrip('\n\r')
RECURSIVE Rstrip(_)
Rstrip(s) ==
    IF Len(s) > 0 /\ s[Len(s)] \in {10, 13}
    THEN Rstrip(SubSeq(s, 1, Len(s) - 1))
    ELSE s

\* re.sub(r'\s', '', hex_string)
RECURSIVE StripWhitespace(_)
StripWhitespace(s) ==
    IF s = <<>> THEN <<>>
    ELSE IF IsSpace(Head(s)) THEN StripWhitespace(Tail(s))
    ELSE <<Head(s)>> \o StripWhitespace(Tail(s))

----------------------------------------------------------------------------
(* bytes.fromhex *)

IsHexDigit(c) == (c >= 48 /\ c <= 57) \/ (c >= 65 /\ c <= 70) \/ (c >= 97 /\ c <= 102)

HexValLowerOnly(c) ==
    IF c >= 48 /\ c <= 57 THEN c - 48 ELSE c - 87

\* value of one hex digit, either case
HexVal(c) ==
    IF c >= 48 /\ c <= 57 THEN c - 48
    ELSE IF c >= 97 /\ c <= 102 THEN c - 87
    ELSE c - 55

\* bytes.fromhex(s) on a string without whitespace: the bytes, or the
\* ValueError with the position it reports (the first character that is no
\* hex digit, or the end of the string when a digit has no partner)
RECURSIVE FromHexAt(_, _, _)
FromHexAt(s, i, acc) ==
    IF i > Len(s) THEN [ok |-> TRUE, bytes |-> acc, pos |-> -1]
    ELSE IF ~IsHexDigit(s[i]) THEN [ok |-> FALSE, bytes |-> <<>>, pos |-> i - 1]
    ELSE IF i + 1 > Len(s) \/ ~IsHexDigit(s[i + 1])
         THEN [ok |-> FALSE, bytes |-> <<>>, pos |-> i]
    ELSE FromHexAt(s, i + 2, Append(acc, 16 * HexVal(s[i]) + HexVal(s[i + 1])))

\* a lenient parser: drops what is no hex digit and a digit without partner
RECURSIVE FromHexLenientAt(_, _)
FromHexLenientAt(s, acc) ==
    IF Len(s) < 2 THEN [ok |-> TRUE, bytes |-> acc, pos |-> -1]
    ELSE IF ~IsHexDigit(s[1]) THEN FromHexLenientAt(Tail(s), acc)
    ELSE IF ~IsHexDigit(s[2]) THEN FromHexLenientAt(Tail(Tail(s)), acc)
    ELSE FromHexLenientAt(Tail(Tail(s)), Append(acc, 16 * HexVal(s[1]) + HexVal(s[2])))

FromHexLenient(s) == FromHexLenientAt(s, <<>>)

FromHex(s) == FromHexAt(s, 1, <<>>)

----------------------------------------------------------------------------
(* bytes.decode *)

IsCont(b, i) == i <= Len(b) /\ b[i] >= 128 /\ b[i] <= 191

\* length of the well-formed UTF-8 sequence starting at b[i], 0 when there is none
SeqLen(b, i) ==
    LET b1 == b[i]
    IN  IF b1 < 128 THEN 1
        ELSE IF b1 >= 194 /\ b1 <= 223 /\ IsCont(b, i + 1) THEN 2
        ELSE IF /\ b1 >= 224 /\ b1 <= 239 /\ IsCont(b, i + 1) /\ IsCont(b, i + 2)
                /\ (b1 = 224 => b[i + 1] >= 160)
                /\ (b1 = 237 => b[i + 1] <= 159)
             THEN 3
        ELSE IF /\ b1 >= 240 /\ b1 <= 244 /\ IsCont(b, i + 1) /\ IsCont(b, i + 2)
                /\ IsCont(b, i + 3)
                /\ (b1 = 240 => b[i + 1] >= 144)
                /\ (b1 = 244 => b[i + 1] <= 143)
             THEN 4
        ELSE 0

\* code point of the well-formed sequence of n bytes starting at b[i]
CodePoint(b, i, n) ==
    IF n = 1 THEN b[i]
    ELSE IF n = 2 THEN (b[i] - 192) * 64 + (b[i + 1] - 128)
    ELSE IF n = 3 THEN (b[i] - 224) * 4096 + (b[i + 1] - 128) * 64 + (b[i + 2] - 128)
    ELSE (b[i] - 240) * 262144 + (b[i + 1] - 128) * 4096 + (b[i + 2] - 128) * 64
         + (b[i + 3] - 128)

RECURSIVE Utf8DecodeAt(_, _, _)
Utf8DecodeAt(b, i, acc) ==
    IF i > Len(b) THEN [ok |-> TRUE, text |-> acc]
    ELSE LET n == SeqLen(b, i)
         IN  IF n = 0 THEN [ok |-> FALSE, text |-> <<>>]
             ELSE Utf8DecodeAt(b, i + n, Append(acc, CodePoint(b, i, n)))

\* bytes_data.decode('utf-8'): strict, UnicodeDecodeError as ok = FALSE
Utf8Decode(b) == Utf8DecodeAt(b, 1, <<>>)

\* an ASCII decoder in the place of Latin-1: fails on a byte above 127
AsciiDecode(b) ==
    IF \A i \in 1..Len(b) : b[i] < 128
    THEN [ok |-> TRUE, text |-> b]
    ELSE [ok |-> FALSE, text |-> <<>>]

\* bytes_data.decode('latin-1'): byte k is code point k, for every byte
Latin1Decode(b) == [ok |-> TRUE, text |-> [i \in 1..Len(b) |-> b[i]]]

----------------------------------------------------------------------------
(* convert_hex_to_utf8 *)

NoMsg == [kind |-> "none", pos |-> -1]

\* the function's return value: a plain str (shape "str"), or a tuple
\* (decoded, msg) whose first component may be None (isNone)
Unset == [shape |-> "unset", isNone |-> FALSE, decoded |-> <<>>, msg |-> NoMsg]

ReturnStr(text) == [shape |-> "str", isNone |-> FALSE, decoded |-> text, msg |-> NoMsg]

ReturnTuple(text, m) == [shape |-> "tuple", isNone |-> FALSE, decoded |-> text, msg |-> m]

ReturnNone(m) == [shape |-> "tuple", isNone |-> TRUE, decoded |-> <<>>, msg |-> m]

ConvertHexToUtf8(hex_string) ==
    LET stripped == StripWhitespace(hex_string)
        parsed   == FromHex(stripped)
    IN  IF ~parsed.ok THEN ReturnNone([kind |-> "invalid_hex", pos |-> parsed.pos])
        ELSE LET u == Utf8Decode(parsed.bytes)
             IN  IF u.ok THEN ReturnStr(u.text)
                 ELSE LET l == Latin1Decode(parsed.bytes)
                      IN  IF l.ok THEN ReturnTuple(l.text, [kind |-> "latin1", pos |-> -1])
                          ELSE ReturnNone([kind |-> "utf8_error", pos |-> -1])

----------------------------------------------------------------------------
(* Inputs *)

Wrap(payload) == MarkerPrefix \o payload \o Str(<<"]">>)

\* characters of the enumerated payloads: hex digits of both cases (giving the
\* bytes 00 0a 0C a0 aa aC C0 Ca CC), a letter that is no hex digit, a space
PayloadChars == {Ord["0"], Ord["a"], Ord["C"], Ord["z"], Ord[" "]}

Payloads == SeqsUpTo(PayloadChars, MaxPayloadLen)

\* lines around the marker pattern: text before it, text after it, a missing
\* bracket, a lower-case marker, and plain text
OtherLines ==
    { Str(<<"p">>),
      Wrap(Str(<<"0", "a">>)) \o Str(<<"x">>),
      Str(<<"x">>) \o Wrap(Str(<<"0", "a">>)),
      MarkerPrefix \o Str(<<"0", "a">>),
      Str(<<"$", "h", "e", "x", "[", "0", "a", "]">>) }

\* every bare payload, every wrapped payload, and the lines above
LineTokens == Payloads \cup {Wrap(q) : q \in Payloads} \cup OtherLines

\* lines of the files of more than one line
SampleLines ==
    { Wrap(Str(<<"0", "a">>)),            \* decodes to a line feed
      Wrap(Str(<<"C", "a", "a", "0">>)),  \* a two-byte UTF-8 sequence
      Wrap(Str(<<"a", "0">>)),            \* no UTF-8: Latin-1
      Wrap(Str(<<"a">>)),                 \* an odd number of digits
      Wrap(Str(<<"z", "z">>)),            \* no hex digits
      Wrap(Str(<<"0", " ", "a">>)),       \* whitespace between the digits
      Str(<<"p">>),
      <<>> }

FileContents == {<<t>> : t \in LineTokens} \cup SeqsUpTo(SampleLines, MaxLines)

\* the lines as iteration yields them: each ends with "\n" (newline
\* translation), but the last one when the file does not end with a newline
RawLines(content, eofNewline) ==
    [i \in 1..Len(content) |->
        IF i < Len(content) \/ eofNewline THEN Append(content[i], 10)
        ELSE content[i]]

InputFiles ==
    {RawLines(c, TRUE) : c \in FileContents} \cup
    {RawLines(c, FALSE) : c \in {d \in FileContents : d # <<>> /\ d[Len(d)] # <<>>}}

\* the strings given to --input: a line token, or a sample with a final newline
StringInputs == LineTokens \cup {Append(t, 10) : t \in SampleLines}

\* the output file before the run: absent
NoFile == <<-1>>

----------------------------------------------------------------------------
(* Messages *)

Message(kind, line, text, m) == [kind |-> kind, line |-> line, text |-> text, msg |-> m]

\* "Line N: <msg>" and "Line N: Failed - <msg>"
Warning(n, failed, m) == [line |-> n, failed |-> failed, msg |-> m]

\* the tip about quoting is printed when fromhex stopped at position 0
TipFor(m) ==
    IF m.kind = "invalid_hex" /\ m.pos = 0
    THEN <<Message("tip", 0, <<>>, NoMsg)>>
    ELSE <<>>

----------------------------------------------------------------------------
(* process_file *)

\* first value of enumerate(f, 1)
EnumerateStart == 1

\* enumerate(f): counting from zero
LineNumberZeroBased(consumed) == consumed

\* the number enumerate gives the line read after `consumed` lines
LineNumber(consumed) == EnumerateStart + consumed

\* the loop body: what one line appends to decoded_lines and to warnings,
\* and what convert_hex_to_utf8 returned (Unset when it was not called)
FileLineStep(raw, n) ==
    LET line  == Rstrip(raw)
        match == RegexMatch(line)
    IN  IF match.matched
        THEN LET r == ConvertHexToUtf8(match.group)
             IN  IF r.shape = "tuple"
                 THEN IF ~r.isNone
                      THEN [out |-> r.decoded, warns |-> <<Warning(n, FALSE, r.msg)>>, ret |-> r]
                      ELSE [out |-> line, warns |-> <<Warning(n, TRUE, r.msg)>>, ret |-> r]
                 ELSE [out |-> r.decoded, warns |-> <<>>, ret |-> r]
        ELSE [out |-> line, warns |-> <<>>, ret |-> Unset]

AllLinesReadEarly == Len(decoded_lines) >= 1 \/ Len(fileLines) = 0

\* the for loop over the file is exhausted
AllLinesRead == Len(decoded_lines) = Len(fileLines)

\* '\n'.join(ls)
RECURSIVE JoinLines(_)
JoinLines(ls) ==
    IF ls = <<>> THEN <<>>
    ELSE IF Len(ls) = 1 THEN ls[1]
    ELSE ls[1] \o <<10>> \o JoinLines(Tail(ls))

\* the text written to the output file
FileOutput(ls) == JoinLines(ls) \o <<10>>

\* the "Warnings:" block, printed when there is a warning
WarningBlock(ws) ==
    IF ws = <<>> THEN <<>>
    ELSE <<Message("warnings_header", 0, <<>>, NoMsg)>> \o
         [i \in 1..Len(ws) |->
            Message(IF ws[i].failed THEN "line_failed" ELSE "line_warning",
                    ws[i].line, <<>>, ws[i].msg)]

\* main: the input is a file and --output is missing
MainFileNoOutput ==
    /\ pc = "main" /\ inputIsFile /\ ~outputGiven
    /\ stderr' = Append(stderr, Message("error_usage", 0, <<>>, NoMsg))
    /\ exitCode' = 1
    /\ pc' = "done"
    /\ UNCHANGED <<inputIsFile, outputGiven, fileLines, hexInput, line_num,
                   decoded_lines, warnings, result, outFile, outWrites, stdout>>

\* main calls process_file, which opens the input file
OpenInput ==
    /\ pc = "main" /\ inputIsFile /\ outputGiven
    /\ decoded_lines' = <<>>
    /\ warnings' = <<>>
    /\ pc' = "reading"
    /\ UNCHANGED <<inputIsFile, outputGiven, fileLines, hexInput, line_num, result,
                   outFile, outWrites, stdout, stderr, exitCode>>

\* opening the input file raises (FileNotFoundError, PermissionError)
OpenInputError ==
    /\ pc = "main" /\ inputIsFile /\ outputGiven
    /\ stderr' = Append(stderr, Message("error_input", 0, <<>>, NoMsg))
    /\ exitCode' = 1
    /\ pc' = "done"
    /\ UNCHANGED <<inputIsFile, outputGiven, fileLines, hexInput, line_num,
                   decoded_lines, warnings, result, outFile, outWrites, stdout>>

\* reading on raises (the file is no UTF-8, an I/O error)
ReadError ==
    /\ pc = "reading"
    /\ stderr' = Append(stderr, Message("error_input", 0, <<>>, NoMsg))
    /\ exitCode' = 1
    /\ pc' = "done"
    /\ UNCHANGED <<inputIsFile, outputGiven, fileLines, hexInput, line_num,
                   decoded_lines, warnings, result, outFile, outWrites, stdout>>

\* one iteration of the loop
ProcessLine ==
    /\ pc = "reading" /\ ~AllLinesRead
    /\ LET n    == LineNumber(Len(decoded_lines))
           step == FileLineStep(fileLines[Len(decoded_lines) + 1], n)
       IN  /\ line_num' = n
           /\ decoded_lines' = Append(decoded_lines, step.out)
           /\ warnings' = warnings \o step.warns
           /\ result' = IF step.ret.shape = "unset" THEN result ELSE step.ret
    /\ UNCHANGED <<pc, inputIsFile, outputGiven, fileLines, hexInput, outFile,
                   outWrites, stdout, stderr, exitCode>>

\* after the loop: the output file is written, the warnings are printed
WriteOutput ==
    /\ pc = "reading" /\ AllLinesRead
    /\ outFile' = FileOutput(decoded_lines)
    /\ outWrites' = outWrites + 1
    /\ stdout' = stdout \o WarningBlock(warnings) \o
                 <<Message("written", 0, <<>>, NoMsg)>>
    /\ exitCode' = 0
    /\ pc' = "done"
    /\ UNCHANGED <<inputIsFile, outputGiven, fileLines, hexInput, line_num,
                   decoded_lines, warnings, result, stderr>>

\* after the loop: opening the output file raises, or writing to it does
\* (the file is then already truncated)
WriteOutputError ==
    /\ pc = "reading" /\ AllLinesRead
    /\ \/ UNCHANGED <<outFile, outWrites>>
       \/ outFile' = <<>> /\ outWrites' = outWrites + 1
    /\ stderr' = Append(stderr, Message("error_output", 0, <<>>, NoMsg))
    /\ exitCode' = 1
    /\ pc' = "done"
    /\ UNCHANGED <<inputIsFile, outputGiven, fileLines, hexInput, line_num,
                   decoded_lines, warnings, result, stdout>>

----------------------------------------------------------------------------
(* process_hex_string *)

\* what convert_hex_to_utf8 is called with: group(1) when the input matches
\* the marker, the whole input otherwise
HexArgument(hex_input) ==
    LET match == RegexMatch(hex_input)
    IN  IF match.matched THEN match.group ELSE hex_input

\* the part up to the output: whether it exits with an error, and the
\* locals result and warning_msg
HexStringResult(hex_input) ==
    LET r == ConvertHexToUtf8(HexArgument(hex_input))
    IN  IF r.shape = "tuple"
        THEN IF r.isNone
             THEN [ret |-> r, failed |-> TRUE, text |-> <<>>, warning_msg |-> NoMsg]
             ELSE [ret |-> r, failed |-> FALSE, text |-> r.decoded, warning_msg |-> r.msg]
        ELSE [ret |-> r, failed |-> FALSE, text |-> r.decoded, warning_msg |-> NoMsg]

WarningLine(m) ==
    IF m.kind = "none" THEN <<>> ELSE <<Message("warning", 0, <<>>, m)>>

\* the hex string does not parse: error, tip, exit 1
HexStringFail ==
    /\ pc = "main" /\ ~inputIsFile
    /\ LET r == HexStringResult(hexInput)
       IN  /\ r.failed
           /\ result' = r.ret
           /\ stderr' = stderr \o <<Message("error_hex", 0, <<>>, r.ret.msg)>> \o
                        TipFor(r.ret.msg)
    /\ exitCode' = 1
    /\ pc' = "done"
    /\ UNCHANGED <<inputIsFile, outputGiven, fileLines, hexInput, line_num,
                   decoded_lines, warnings, outFile, outWrites, stdout>>

\* decoded, --output given: written to the file
HexStringToFile ==
    /\ pc = "main" /\ ~inputIsFile /\ outputGiven
    /\ LET r == HexStringResult(hexInput)
       IN  /\ ~r.failed
           /\ result' = r.ret
           /\ outFile' = Append(r.text, 10)
           /\ stdout' = stdout \o WarningLine(r.warning_msg) \o
                        <<Message("written", 0, <<>>, NoMsg)>>
    /\ outWrites' = outWrites + 1
    /\ exitCode' = 0
    /\ pc' = "done"
    /\ UNCHANGED <<inputIsFile, outputGiven, fileLines, hexInput, line_num,
                   decoded_lines, warnings, stderr>>

\* decoded, --output given: opening the file raises, or writing to it does
HexStringToFileError ==
    /\ pc = "main" /\ ~inputIsFile /\ outputGiven
    /\ LET r == HexStringResult(hexInput)
       IN  /\ ~r.failed
           /\ result' = r.ret
    /\ \/ UNCHANGED <<outFile, outWrites>>
       \/ outFile' = <<>> /\ outWrites' = outWrites + 1
    /\ stderr' = Append(stderr, Message("error_output", 0, <<>>, NoMsg))
    /\ exitCode' = 1
    /\ pc' = "done"
    /\ UNCHANGED <<inputIsFile, outputGiven, fileLines, hexInput, line_num,
                   decoded_lines, warnings, stdout>>

\* decoded, no --output: printed
HexStringToStdout ==
    /\ pc = "main" /\ ~inputIsFile /\ ~outputGiven
    /\ LET r == HexStringResult(hexInput)
       IN  /\ ~r.failed
           /\ result' = r.ret
           /\ stdout' = stdout \o WarningLine(r.warning_msg) \o
                        <<Message("decoded", 0, r.text, NoMsg)>>
    /\ exitCode' = 0
    /\ pc' = "done"
    /\ UNCHANGED <<inputIsFile, outputGiven, fileLines, hexInput, line_num,
                   decoded_lines, warnings, outFile, outWrites, stderr>>

----------------------------------------------------------------------------
(* The program *)

Init ==
    /\ pc = "main"
    /\ inputIsFile \in BOOLEAN
    /\ outputGiven \in BOOLEAN
    /\ fileLines \in (IF inputIsFile THEN InputFiles ELSE {<<>>})
    /\ hexInput \in (IF inputIsFile THEN {<<>>} ELSE StringInputs)
    /\ line_num = 0
    /\ decoded_lines = <<>>
    /\ warnings = <<>>
    /\ result = Unset
    /\ outFile = NoFile
    /\ outWrites = 0
    /\ stdout = <<>>
    /\ stderr = <<>>
    /\ exitCode = -1

Next ==
    \/ MainFileNoOutput
    \/ OpenInput
    \/ OpenInputError
    \/ ReadError
    \/ ProcessLine
    \/ WriteOutput
    \/ WriteOutputError
    \/ HexStringFail
    \/ HexStringToFile
    \/ HexStringToFileError
    \/ HexStringToStdout

Spec == Init /\ [][Next]_vars

----------------------------------------------------------------------------
(* Reference definitions the properties are stated with.  They are written *)
(* from the formats themselves (the digit tables, the UTF-8 encoding), not *)
(* from the program's way of parsing them.                                 *)

RefLowerDigits == <<48, 49, 50, 51, 52, 53, 54, 55, 56, 57, 97, 98, 99, 100, 101, 102>>

RefUpperDigits == <<48, 49, 50, 51, 52, 53, 54, 55, 56, 57, 65, 66, 67, 68, 69, 70>>

RefIsHex(c) == \E v \in 1..16 : RefLowerDigits[v] = c \/ RefUpperDigits[v] = c

RefHexVal(c) == (CHOOSE v \in 1..16 : RefLowerDigits[v] = c \/ RefUpperDigits[v] = c) - 1

RefAllHex(s) == \A i \in 1..Len(s) : RefIsHex(s[i])

RefIsWhitespace(c) == c \in {Ord[" "], Ord["\n"], Ord["\r"], 9}

RefWithoutWhitespace(s) == SelectSeq(s, LAMBDA c : ~RefIsWhitespace(c))

\* s is $HEX[ ... ]
RefHasMarkerForm(s) ==
    /\ Len(s) >= 6
    /\ s[1] = Ord["$"] /\ s[2] = Ord["H"] /\ s[3] = Ord["E"] /\ s[4] = Ord["X"]
    /\ s[5] = Ord["["] /\ s[Len(s)] = Ord["]"]

\* what stands between the brackets
RefPayload(s) == [i \in 1..Len(s) - 6 |-> s[i + 5]]

\* s matches ^\$HEX\[[0-9A-Fa-f]+\]$ from its first to its last character
RefIsMarker(s) ==
    RefHasMarkerForm(s) /\ RefPayload(s) # <<>> /\ RefAllHex(RefPayload(s))

RefWrap(h) == <<Ord["$"], Ord["H"], Ord["E"], Ord["X"], Ord["["]>> \o h \o <<Ord["]"]>>

\* the bytes an even-length string of hex digits stands for
RefBytes(h) ==
    [k \in 1..(Len(h) \div 2) |-> 16 * RefHexVal(h[2 * k - 1]) + RefHexVal(h[2 * k])]

RefIsScalar(cp) == cp >= 0 /\ cp <= 1114111 /\ ~(cp >= 55296 /\ cp <= 57343)

\* the UTF-8 encoding of one code point
RefEncode(cp) ==
    IF cp < 128 THEN <<cp>>
    ELSE IF cp < 2048 THEN <<192 + (cp \div 64), 128 + (cp % 64)>>
    ELSE IF cp < 65536
         THEN <<224 + (cp \div 4096), 128 + ((cp \div 64) % 64), 128 + (cp % 64)>>
    ELSE <<240 + (cp \div 262144), 128 + ((cp \div 4096) % 64),
           128 + ((cp \div 64) % 64), 128 + (cp % 64)>>

RECURSIVE RefEncodeAll(_)
RefEncodeAll(text) ==
    IF text = <<>> THEN <<>> ELSE RefEncode(Head(text)) \o RefEncodeAll(Tail(text))

\* the payload bits of a chunk of 1 to 4 bytes
RefChunkValue(c) ==
    IF Len(c) = 1 THEN c[1]
    ELSE IF Len(c) = 2 THEN (c[1] % 32) * 64 + (c[2] % 64)
    ELSE IF Len(c) = 3 THEN (c[1] % 16) * 4096 + (c[2] % 64) * 64 + (c[3] % 64)
    ELSE (c[1] % 8) * 262144 + (c[2] % 64) * 4096 + (c[3] % 64) * 64 + (c[4] % 64)

\* b, from position i on, is the encoding of some text: it splits into
\* chunks that are each the encoding of a scalar value
RECURSIVE RefValidFrom(_, _)
RefValidFrom(b, i) ==
    \/ i > Len(b)
    \/ \E n \in 1..4 :
          /\ i + n - 1 <= Len(b)
          /\ LET chunk == SubSeq(b, i, i + n - 1)
             IN  /\ RefIsScalar(RefChunkValue(chunk))
                 /\ RefEncode(RefChunkValue(chunk)) = chunk
          /\ RefValidFrom(b, i + n)

RefValidUtf8(b) == RefValidFrom(b, 1)

RefEvenHex(h) == RefAllHex(h) /\ Len(h) % 2 = 0

RefOddHex(h) == RefAllHex(h) /\ Len(h) % 2 = 1

\* a line of the file without its terminator
RefContent(raw) ==
    IF Len(raw) > 0 /\ raw[Len(raw)] = Ord["\n"] THEN SubSeq(raw, 1, Len(raw) - 1) ELSE raw

\* what the specification makes of a line
RefClass(content) ==
    IF ~RefIsMarker(content) THEN "unchanged"
    ELSE IF Len(RefPayload(content)) % 2 = 1 THEN "failed"
    ELSE IF RefValidUtf8(RefBytes(RefPayload(content))) THEN "decoded"
    ELSE "fallback"

\* the lines the loop has dealt with, and the warnings about line i
Processed == 1..Len(decoded_lines)

ContentOf(i) == RefContent(fileLines[i])

WarningsAbout(i) == {k \in DOMAIN warnings : warnings[k].line = i}

FileRun == inputIsFile /\ pc \in {"reading", "done"}

StringDone == ~inputIsFile /\ pc = "done"

----------------------------------------------------------------------------
(* Properties *)

\* C1: in file mode, a line that does not match the anchored marker pattern
\* is appended to the output lines verbatim (without its terminator), and no
\* warning is recorded for it, whatever it contains.
C1_NonMarkerLinesPassThrough ==
    FileRun =>
        \A i \in Processed :
            ~RefIsMarker(ContentOf(i)) =>
                /\ decoded_lines[i] = ContentOf(i)
                /\ WarningsAbout(i) = {}

\* a finished run that passed through a line which starts like a marker
C1_Witness ==
    /\ inputIsFile /\ pc = "done" /\ exitCode = 0
    /\ \E i \in Processed :
          /\ ~RefIsMarker(ContentOf(i))
          /\ Len(ContentOf(i)) > 5
          /\ SubSeq(ContentOf(i), 1, 5) = SubSeq(RefWrap(<<>>), 1, 5)
          /\ decoded_lines[i] = ContentOf(i)

\* C2: a marker whose payload is an even number of hex digits (of either
\* case) standing for valid UTF-8 decodes to that UTF-8 text with no message:
\* convert_hex_to_utf8 returns a plain str, file mode appends the text and
\* records no warning, string mode emits the text and no warning.
C2_ValidUtf8Decoded ==
    /\ FileRun =>
          \A i \in Processed :
              RefClass(ContentOf(i)) = "decoded" =>
                  /\ RefEncodeAll(decoded_lines[i]) = RefBytes(RefPayload(ContentOf(i)))
                  /\ WarningsAbout(i) = {}
                  /\ i = Len(decoded_lines) =>
                        /\ result.shape = "str"
                        /\ result.msg = NoMsg
                        /\ result.decoded = decoded_lines[i]
    /\ (StringDone /\ RefIsMarker(hexInput) /\ RefClass(hexInput) = "decoded") =>
          /\ result.shape = "str"
          /\ result.msg = NoMsg
          /\ RefEncodeAll(result.decoded) = RefBytes(RefPayload(hexInput))
          /\ stderr = <<>> => exitCode = 0
          /\ \A k \in DOMAIN stdout : stdout[k].kind # "warning"
          /\ (exitCode = 0 /\ ~outputGiven) =>
                stdout = <<Message("decoded", 0, result.decoded, NoMsg)>>
          /\ (exitCode = 0 /\ outputGiven) => outFile = Append(result.decoded, 10)

\* a line with upper-case digits decoded to a character of two bytes
C2_Witness ==
    /\ inputIsFile /\ pc = "done" /\ exitCode = 0
    /\ \E i \in Processed :
          /\ RefClass(ContentOf(i)) = "decoded"
          /\ Len(RefPayload(ContentOf(i))) = 4
          /\ Ord["C"] \in {RefPayload(ContentOf(i))[j] : j \in 1..4}
          /\ Len(decoded_lines[i]) = 1
          /\ decoded_lines[i][1] > 127

\* C3: an even number of hex digits that are no valid UTF-8 never fails: the
\* result is the tuple (text, warning) with one character per byte, the code
\* point being the byte; file mode records exactly one warning, not a
\* failure, with the line's number.  The only failure convert_hex_to_utf8
\* returns is the invalid hex format.
C3_Latin1Fallback ==
    /\ FileRun =>
          \A i \in Processed :
              RefClass(ContentOf(i)) = "fallback" =>
                  /\ decoded_lines[i] = RefBytes(RefPayload(ContentOf(i)))
                  /\ Cardinality(WarningsAbout(i)) = 1
                  /\ \A k \in WarningsAbout(i) :
                        ~warnings[k].failed /\ warnings[k].msg.kind = "latin1"
                  /\ i = Len(decoded_lines) =>
                        /\ result.shape = "tuple" /\ ~result.isNone
                        /\ result.decoded = decoded_lines[i]
    /\ StringDone =>
          LET h == IF RefIsMarker(hexInput) THEN RefPayload(hexInput) ELSE hexInput
          IN  (RefEvenHex(h) /\ ~RefValidUtf8(RefBytes(h))) =>
                  /\ result.shape = "tuple" /\ ~result.isNone
                  /\ result.msg.kind = "latin1"
                  /\ result.decoded = RefBytes(h)
                  /\ stderr = <<>> => exitCode = 0
                  /\ exitCode = 0 => stdout[1] = Message("warning", 0, <<>>, result.msg)
    /\ result.msg.kind # "utf8_error"
    /\ result.isNone => result.msg.kind = "invalid_hex"
    /\ \A k \in DOMAIN warnings : warnings[k].msg.kind \in {"latin1", "invalid_hex"}
    /\ \A k \in DOMAIN stderr : stderr[k].msg.kind # "utf8_error"

\* a line of two bytes that are no UTF-8, decoded with one warning
C3_Witness ==
    /\ inputIsFile /\ pc = "done" /\ exitCode = 0
    /\ \E i \in Processed :
          /\ RefClass(ContentOf(i)) = "fallback"
          /\ Len(decoded_lines[i]) = 2
          /\ decoded_lines[i][1] > 127
          /\ Cardinality(WarningsAbout(i)) = 1

\* C4 as stated: a line $HEX[<payload>] whose payload has an odd number of
\* digits, or a character that is no hex digit, is written unchanged and a
\* "Line N: Failed - ..." warning is recorded for it.
C4_Original_MalformedPayloadFails ==
    FileRun =>
        \A i \in Processed :
            (/\ RefHasMarkerForm(ContentOf(i))
             /\ \/ RefOddHex(RefPayload(ContentOf(i)))
                \/ ~RefAllHex(RefPayload(ContentOf(i)))) =>
                /\ decoded_lines[i] = ContentOf(i)
                /\ \E k \in WarningsAbout(i) : warnings[k].failed

\* C4 as amended: a line $HEX[<payload>] with an odd number of hex digits is
\* written unchanged with exactly one "Failed" warning (invalid hex format)
\* carrying its number; a line $HEX[<payload>] whose payload holds a
\* character that is no hex digit does not match the marker, and is written
\* unchanged with no warning.  Given as a string, either kind ends in the
\* invalid hex format error and exit code 1.
C4_MalformedPayload ==
    /\ FileRun =>
          \A i \in Processed :
              RefHasMarkerForm(ContentOf(i)) =>
                  /\ RefOddHex(RefPayload(ContentOf(i))) =>
                        /\ decoded_lines[i] = ContentOf(i)
                        /\ Cardinality(WarningsAbout(i)) = 1
                        /\ \A k \in WarningsAbout(i) :
                              warnings[k].failed /\ warnings[k].msg.kind = "invalid_hex"
                  /\ ~RefAllHex(RefPayload(ContentOf(i))) =>
                        /\ decoded_lines[i] = ContentOf(i)
                        /\ WarningsAbout(i) = {}
    /\ (/\ StringDone
        /\ RefHasMarkerForm(hexInput)
        /\ \/ RefOddHex(RefPayload(hexInput))
           \/ ~RefAllHex(RefPayload(hexInput))) =>
          /\ result.isNone
          /\ result.msg.kind = "invalid_hex"
          /\ exitCode = 1
          /\ stderr[1] = Message("error_hex", 0, <<>>, result.msg)

\* a finished run over an odd-length line (warned) and a non-hex line (not warned)
C4_Witness ==
    /\ inputIsFile /\ pc = "done" /\ exitCode = 0
    /\ \E i, j \in Processed :
          /\ RefHasMarkerForm(ContentOf(i)) /\ RefOddHex(RefPayload(ContentOf(i)))
          /\ \E k \in WarningsAbout(i) : warnings[k].failed
          /\ RefHasMarkerForm(ContentOf(j)) /\ ~RefAllHex(RefPayload(ContentOf(j)))
          /\ WarningsAbout(j) = {}
          /\ decoded_lines[j] = ContentOf(j)

\* hex digits with whitespace among them, at least one of each
RefSpacedHex(w) ==
    /\ RefAllHex(RefWithoutWhitespace(w))
    /\ RefWithoutWhitespace(w) # <<>>
    /\ Len(RefWithoutWhitespace(w)) < Len(w)

\* C5: whitespace between the brackets is stripped before the content is read
\* as hex: $HEX[w], w being hex digits with whitespace among them, gives what
\* $HEX[h] gives, h being w without the whitespace, in file mode (the line
\* appended, the warnings recorded) and in string mode (the value returned,
\* the exit).
C5_WhitespaceInBracketsStripped ==
    /\ FileRun =>
          \A i \in Processed :
              (RefHasMarkerForm(ContentOf(i)) /\ RefSpacedHex(RefPayload(ContentOf(i)))) =>
                  LET h == RefWithoutWhitespace(RefPayload(ContentOf(i)))
                      e == FileLineStep(RefWrap(h), i)
                  IN  IF e.ret.isNone
                      THEN /\ decoded_lines[i] = ContentOf(i)
                           /\ \E k \in WarningsAbout(i) : warnings[k].failed
                      ELSE /\ decoded_lines[i] = e.out
                           /\ Cardinality(WarningsAbout(i)) = Len(e.warns)
    /\ (StringDone /\ RefHasMarkerForm(hexInput) /\ RefSpacedHex(RefPayload(hexInput))) =>
          LET e == HexStringResult(RefWrap(RefWithoutWhitespace(RefPayload(hexInput))))
          IN  /\ e.failed <=> result.isNone
              /\ ~e.failed =>
                    /\ result.shape = e.ret.shape
                    /\ result.decoded = e.text
                    /\ stderr = <<>> => exitCode = 0

\* the number of lines a reader of the text finds
RefLineCount(text) ==
    Cardinality({k \in DOMAIN text : text[k] = Ord["\n"]})
    + (IF text # <<>> /\ text[Len(text)] # Ord["\n"] THEN 1 ELSE 0)

\* C6: in file mode the output has exactly as many lines as the input, the
\* empty file and lines decoding to line breaks included, and ends with one
\* line feed.
C6_LineCountPreserved ==
    (inputIsFile /\ pc = "done" /\ exitCode = 0) =>
        /\ RefLineCount(outFile) = Len(fileLines)
        /\ outFile # <<>> => outFile[Len(outFile)] = Ord["\n"]

\* the strings whose hex does not parse: a marker form with a malformed
\* payload, or a bare string that, whitespace apart, is no even number of hex
\* digits (a string ending in a line feed is left out: the pattern's $ may
\* still match before it)
RefHexFailure(s) ==
    /\ s # <<>> /\ s[Len(s)] # Ord["\n"]
    /\ IF RefHasMarkerForm(s)
       THEN ~RefEvenHex(RefPayload(s)) \/ RefPayload(s) = <<>>
       ELSE ~RefEvenHex(RefWithoutWhitespace(s))

\* C7: in string mode, when the hex does not parse, the run ends with exit
\* code 1 and the error on standard error; nothing is printed on standard
\* output and the output file is neither created nor written.
C7_StringModeFailureIsFatal ==
    (StringDone /\ (result.isNone \/ RefHexFailure(hexInput))) =>
        /\ result.isNone
        /\ exitCode = 1
        /\ stderr # <<>>
        /\ stderr[1] = Message("error_hex", 0, <<>>, result.msg)
        /\ stdout = <<>>
        /\ outFile = NoFile
        /\ outWrites = 0

\* a failed run that was given an output file, for a bare string and for a marker
C7_Witness ==
    /\ StringDone /\ outputGiven /\ exitCode = 1 /\ result.isNone
    /\ RefHasMarkerForm(hexInput)
    /\ ~RefAllHex(RefPayload(hexInput))
    /\ outFile = NoFile

\* C8: in file mode every warning carries the 1-based number of the line it
\* is about, whatever was warned before; the warnings are in strictly
\* increasing order of line, at most one a line; the lines warned about are
\* exactly those decoded by the fallback or failed; and the block printed at
\* the end lists them in that order.
C8_WarningsNumberedByLine ==
    FileRun =>
        /\ \A k \in DOMAIN warnings : warnings[k].line \in Processed
        /\ \A k \in DOMAIN warnings :
              k < Len(warnings) => warnings[k].line < warnings[k + 1].line
        /\ {warnings[k].line : k \in DOMAIN warnings} =
              {i \in Processed : RefClass(ContentOf(i)) \in {"fallback", "failed"}}
        /\ \A k \in DOMAIN warnings :
              warnings[k].failed <=> RefClass(ContentOf(warnings[k].line)) = "failed"
        /\ (pc = "done" /\ exitCode = 0 /\ warnings # <<>>) =>
              /\ Len(stdout) = Len(warnings) + 2
              /\ \A k \in DOMAIN warnings :
                    /\ stdout[k + 1].line = warnings[k].line
                    /\ stdout[k + 1].msg = warnings[k].msg

\* a finished run with a warning for line 1, none for line 2, one for line 3
C8_Witness ==
    /\ inputIsFile /\ pc = "done" /\ exitCode = 0
    /\ Len(fileLines) >= 3
    /\ Len(warnings) = 2
    /\ warnings[1].line = 1 /\ ~warnings[1].failed
    /\ warnings[2].line = 3 /\ warnings[2].failed

\* C9: in file mode the output file is written once, after every line was
\* read and processed: it is untouched while a line is unprocessed; a run
\* that fails on its input exits 1 with the output file untouched; a line
\* with invalid hex ends nothing: the loop goes on, and the run exits 1
\* only for an input, output or usage error.
C9_OutputWrittenOnceAtEnd ==
    inputIsFile =>
        /\ Len(decoded_lines) < Len(fileLines) => (outFile = NoFile /\ outWrites = 0)
        /\ outWrites <= 1
        /\ pc # "done" => (exitCode = -1 /\ outWrites = 0 /\ stderr = <<>>)
        /\ (pc = "done" /\ Len(decoded_lines) < Len(fileLines)) =>
              (exitCode = 1 /\ stderr[1].kind \in {"error_input", "error_usage"})
        /\ (pc = "done" /\ exitCode = 0) =>
              /\ Len(decoded_lines) = Len(fileLines)
              /\ outWrites = 1
              /\ outFile # NoFile
              /\ outFile[Len(outFile)] = Ord["\n"]
              /\ stderr = <<>>
        /\ pc = "done" =>
              /\ exitCode \in {0, 1}
              /\ exitCode = 1 =>
                    /\ Len(stderr) = 1
                    /\ stderr[1].kind \in {"error_input", "error_output", "error_usage"}
                    /\ stderr[1].kind \in {"error_input", "error_usage"} =>
                          (outFile = NoFile /\ outWrites = 0)

\* the output written after a first line with invalid hex and two more lines
C9_Witness ==
    /\ inputIsFile /\ pc = "done" /\ exitCode = 0 /\ outWrites = 1
    /\ Len(fileLines) = 3
    /\ warnings # <<>> /\ warnings[1].line = 1 /\ warnings[1].failed
    /\ Len(decoded_lines) = 3

\* the state a finished string-mode run is in agrees with the outcome e
C10_Agrees(e) ==
    /\ result = e.ret
    /\ e.failed <=> (exitCode = 1 /\ stderr # <<>> /\ stderr[1].kind = "error_hex")
    /\ e.failed => (stdout = <<>> /\ outWrites = 0)
    /\ (~e.failed /\ stderr = <<>>) => exitCode = 0
    /\ (exitCode = 0 /\ ~outputGiven) =>
          stdout = WarningLine(e.warning_msg) \o <<Message("decoded", 0, e.text, NoMsg)>>
    /\ (exitCode = 0 /\ outputGiven) =>
          /\ outFile = Append(e.text, Ord["\n"])
          /\ stdout = WarningLine(e.warning_msg) \o <<Message("written", 0, <<>>, NoMsg)>>

\* C10: in string mode the wrapper is optional: for a non-empty string h of
\* hex digits, the run on h and the run on $HEX[h] return the same value,
\* give the same text and the same warning, and exit alike (1 when h has an
\* odd number of digits).
C10_WrapperOptional ==
    StringDone =>
        /\ (hexInput # <<>> /\ RefAllHex(hexInput)) =>
              /\ C10_Agrees(HexStringResult(RefWrap(hexInput)))
              /\ result.isNone <=> Len(hexInput) % 2 = 1
        /\ RefIsMarker(hexInput) =>
              /\ C10_Agrees(HexStringResult(RefPayload(hexInput)))
              /\ result.isNone <=> Len(RefPayload(hexInput)) % 2 = 1

\* a bare string of four digits printed as one character, with a wrapped twin
C10_Witness ==
    /\ StringDone /\ ~outputGiven /\ exitCode = 0
    /\ RefAllHex(hexInput) /\ Len(hexInput) = 4
    /\ Len(stdout) = 1 /\ stdout[1].kind = "decoded"
    /\ Len(stdout[1].text) = 1 /\ stdout[1].text[1] > 127
    /\ RefWrap(hexInput) \in StringInputs

====
